---- MODULE Spec2Model ----
(***************************************************************************)
(* Model of the trading core of Crypto_Trading:                            *)
(*   - HedgeFundAgent portfolio sizing and bookkeeping                     *)
(*       (backend/agents/hedge_fund.py)                                    *)
(*   - MarketAnalyzer.generate_trading_signals                             *)
(*       (backend/agents/market_analyzer.py)                               *)
(*       and analyze_token, calculate_rsi                                  *)
(*   - MemorySystem (backend/cognition/memory.py)                          *)
(*   - CryptoBacktesterSimplified.execute_trade (backend/backtester.py)    *)
(*                                                                         *)
(* Python floats are modelled as exact rationals <<num, den>> with         *)
(* den > 0 in lowest terms, so 0.2 is <<1, 5>>.  Rounding of binary        *)
(* floating point is not modelled.                                         *)
(***************************************************************************)
EXTENDS Integers, Sequences, FiniteSets, TLC

VARIABLES
    \* ---- HedgeFundAgent ----
    cash,               \* portfolio['cash']
    positions,          \* portfolio['positions'] : held token -> quantity
    total_value,        \* portfolio['total_value']
    trades,             \* trade dicts that were sized and await their fill
    price_feed,         \* what JupiterClient.get_price answers, per token
    exec_report,        \* results and per-trade log of the last execute_trades
    n_applied,          \* number of update_portfolio calls so far
    \* ---- MemorySystem ----
    max_size,
    importance_threshold,
    consolidation_interval,
    short_term,
    long_term,
    metrics,
    now,                \* reading of datetime.now()
    last_add,           \* observation of the most recent add call
    n_calls,            \* add calls so far
    n_stored,           \* add calls that stored their entry
    n_below,            \* add calls whose entry scored below the threshold
    n_fired,            \* add calls that triggered consolidation
    recall,             \* observation of the most recent get_relevant_memories
    \* ---- MarketAnalyzer ----
    sig_in,             \* arguments of the most recent generate_trading_signals
    signal,             \* the dict it returned
    analysis,           \* outcome of the most recent analyze_token
    rsi_call,           \* arguments and results of the most recent RSI calls
    \* ---- CryptoBacktesterSimplified ----
    portfolio,          \* self.portfolio: 'cash' and 'tokens'
    trade_execution,    \* observation of the most recent execute_trade
    n_executed          \* execute_trade calls so far

pfVars  == <<cash, positions, total_value, trades, price_feed, n_applied,
             exec_report>>
memVars == <<max_size, importance_threshold, consolidation_interval,
             short_term, long_term, metrics, now, last_add, n_calls,
             n_stored, n_below, n_fired, recall>>
sigVars == <<sig_in, signal, analysis, rsi_call>>
btVars  == <<portfolio, trade_execution, n_executed>>
vars    == <<pfVars, memVars, sigVars, btVars>>

-----------------------------------------------------------------------------
(* Bounds of the model *)

MaxTrades  == 2     \* update_portfolio calls explored
MaxPending == 2     \* sized trades awaiting their fill
MaxAdds    == 3     \* MemorySystem.add calls explored
MaxClock   == 1     \* largest reading of datetime.now()
MaxStoreAdds == 2   \* add calls explored while the store is queried
MaxMergeAdds == 3   \* add calls explored while consolidation is observed
MaxPrices  == 4     \* longest price series handed to the RSI functions
MaxExecuted == 3    \* CryptoBacktesterSimplified.execute_trade calls explored
\* capacity of the short-term deque; the source fixes it at 100
\* (memory.py line 32), the model scales it down
ShortCapacity == 2

-----------------------------------------------------------------------------
(* Exact rational arithmetic standing for Python float arithmetic *)

Abs(x) == IF x < 0 THEN -x ELSE x

RECURSIVE GCD(_, _)
GCD(a, b) == IF b = 0 THEN a ELSE GCD(b, a % b)

Rat(n, d) ==
    LET s == IF d < 0 THEN -1 ELSE 1
        g == GCD(Abs(n), Abs(d))
    IN  <<(s * n) \div g, (s * d) \div g>>

R(n)       == <<n, 1>>
RAdd(a, b) == Rat(a[1] * b[2] + b[1] * a[2], a[2] * b[2])
RSub(a, b) == Rat(a[1] * b[2] - b[1] * a[2], a[2] * b[2])
RMul(a, b) == Rat(a[1] * b[1], a[2] * b[2])
RDiv(a, b) == Rat(a[1] * b[2], a[2] * b[1])
RAbs(a)    == <<Abs(a[1]), a[2]>>
RLt(a, b)  == a[1] * b[2] < b[1] * a[2]
RLe(a, b)  == a[1] * b[2] <= b[1] * a[2]
RMin(a, b) == IF RLe(a, b) THEN a ELSE b
RMax(a, b) == IF RLe(a, b) THEN b ELSE a

RECURSIVE RSum(_, _)
\* sum of f[x] over the finite set S
RSum(f, S) ==
    IF S = {} THEN R(0)
    ELSE LET x == CHOOSE y \in S : TRUE
         IN  RAdd(f[x], RSum(f, S \ {x}))

-----------------------------------------------------------------------------
(* MarketAnalyzer.generate_trading_signals *)

\* dict.get(key, default) on a mapping modelled as a function
Get(d, k, default) == IF k \in DOMAIN d THEN d[k] ELSE default

\* variant: the thresholds themselves already trade
SignalAction_inclusive(signal_strength) ==
    IF RLe(<<3, 10>>, signal_strength) THEN "BUY"
    ELSE IF RLe(signal_strength, <<-3, 10>>) THEN "SELL"
    ELSE "HOLD"

SignalAction(signal_strength) ==
    IF RLt(<<3, 10>>, signal_strength) THEN "BUY"
    ELSE IF RLt(signal_strength, <<-3, 10>>) THEN "SELL"
    ELSE "HOLD"

\* variant: a MACD of exactly 0 contributes nothing
MacdTerm_zero_neutral(macd) ==
    IF RLt(R(0), macd) THEN <<1, 5>>
    ELSE IF macd = R(0) THEN R(0)
    ELSE <<-1, 5>>

\* the MACD branch: +0.2 above zero, -0.2 otherwise
MacdTerm(macd) == IF RLt(R(0), macd) THEN <<1, 5>> ELSE <<-1, 5>>

generate_trading_signals(technical, risk, liquidity) ==
    LET rsi  == Get(technical, "rsi", R(50))
        s1   == IF RLt(rsi, R(30)) THEN <<2, 5>>
                ELSE IF RLt(R(70), rsi) THEN <<-2, 5>>
                ELSE R(0)
        s2   == RAdd(s1, MacdTerm(Get(technical, "macd", R(0))))
        risk_score ==
            RMul(<<3, 10>>,
                 RSub(R(1), RMin(R(1), RDiv(Get(risk, "value_at_risk", R(0)),
                                            <<1, 10>>))))
        s3   == RAdd(s2, risk_score)
        liquidity_score ==
            RMul(<<3, 10>>,
                 RMin(R(1), RDiv(Get(liquidity, "depth_2_percent", R(0)),
                                 R(100000))))
        signal_strength == RAdd(s3, liquidity_score)
    IN  [action          |-> SignalAction(signal_strength),
         confidence      |-> RAbs(signal_strength),
         signal_strength |-> signal_strength,
         risk_score      |-> risk_score,
         liquidity_score |-> liquidity_score]

-----------------------------------------------------------------------------
(* HedgeFundAgent *)

Tokens == {"SOL", "JUP"}

\* initial_capital handed to the constructor
InitialCapitals == {R(0), R(100)}

\* the empty results dict of execute_trades
NoReports == [t \in {} |-> [success |-> FALSE]]

\* JupiterClient.get_price: a price, or None when no quote is available
NoPrice     == [ok |-> FALSE, px |-> R(0)]
Price(p)    == [ok |-> TRUE, px |-> p]
PriceFeeds  == [Tokens -> {NoPrice, Price(R(1)), Price(R(10))}]

\* executed_price reported by the execution collaborator (positive)
FillPrices  == {R(1), R(10)}

\* market_data['liquidity'] of the token being sized
Liquidities == {R(0), R(500)}

\* indicator inputs of the trades that get sized and applied; their
\* confidences are 1/10, 3/5 and 1
SizingInputs ==
    { [technical |-> [rsi |-> R(50), macd |-> R(0)],
       risk      |-> [value_at_risk |-> <<1, 10>>],
       liquidity |-> [depth_2_percent |-> R(200000)]],
      [technical |-> [rsi |-> R(80), macd |-> R(-1)],
       risk      |-> [value_at_risk |-> <<1, 10>>],
       liquidity |-> [depth_2_percent |-> R(0)]],
      [technical |-> [rsi |-> R(20), macd |-> R(1)],
       risk      |-> [value_at_risk |-> R(0)],
       liquidity |-> [depth_2_percent |-> <<100000, 3>>]] }

\* indicator inputs the signal engine may be handed: the ones above, a
\* fully bullish reading (confidence 6/5) and one with the negative
\* value_at_risk of a loss (confidence 27/20)
EngineInputs ==
    SizingInputs \cup
    { [technical |-> [rsi |-> R(20), macd |-> R(1)],
       risk      |-> [value_at_risk |-> R(0)],
       liquidity |-> [depth_2_percent |-> R(200000)]],
      [technical |-> [rsi |-> R(20), macd |-> R(1)],
       risk      |-> [value_at_risk |-> <<-1, 20>>],
       liquidity |-> [depth_2_percent |-> R(200000)]] }

SignalOf(inp) == generate_trading_signals(inp.technical, inp.risk, inp.liquidity)

\* the value `await get_current_price(token)` would deliver: never raises,
\* a missing or failed quote becomes 0.0
get_current_price(token) ==
    IF price_feed[token].ok THEN price_feed[token].px ELSE R(0)

\* float(self.get_current_price(token)) in calculate_total_value: the call
\* is not awaited, so float() receives a coroutine object and raises
\* TypeError for every token; the handler logs it and skips the token.
PriceLookup(token) == [raised |-> TRUE, px |-> R(0)]

calculate_total_value(c, pos) ==
    LET contrib == [t \in DOMAIN pos |->
                      IF PriceLookup(t).raised THEN R(0)
                      ELSE RMul(pos[t], PriceLookup(t).px)]
    IN  RAdd(c, RSum(contrib, DOMAIN pos))

\* variant: the liquidity limit is not applied
calculate_trade_size_unlimited(confidence, market_data) ==
    LET scaled == RMul(RMul(total_value, <<1, 5>>), confidence)
    IN  IF RLt(cash, scaled) THEN cash ELSE scaled

calculate_trade_size(confidence, market_data) ==
    LET max_position == RMul(total_value, <<1, 5>>)
        scaled       == RMul(max_position, confidence)
        liquidity    == Get(market_data, "liquidity", R(0))
        limited      == IF RLt(R(0), liquidity)
                        THEN RMin(scaled, RMul(liquidity, <<1, 10>>))
                        ELSE scaled
    IN  IF RLt(cash, limited) THEN cash ELSE limited

\* generate_trades: one trade dict, its amount sized against the portfolio
SizeTrade(token, action, inp, liq) ==
    /\ Len(trades) < MaxPending
    /\ n_applied + Len(trades) < MaxTrades
    /\ LET confidence == SignalOf(inp).confidence
       IN  trades' = Append(trades,
                [token      |-> token,
                 action     |-> action,
                 amount     |-> calculate_trade_size(confidence,
                                                     [liquidity |-> liq]),
                 confidence |-> confidence,
                 \* (observation) the liquidity it was sized against
                 liquidity  |-> liq])
    /\ UNCHANGED <<cash, positions, total_value, price_feed, n_applied,
                   exec_report>>
    /\ UNCHANGED <<memVars, sigVars, btVars>>

\* variant: a sell never takes a position below 0
apply_fill_floored(c, pos, trade, executed_price) ==
    LET token  == trade.token
        amount == trade.amount
        held   == Get(pos, token, R(0))
        cost   == RMul(amount, executed_price)
        cash2  == IF trade.action = "buy"
                  THEN RSub(c, cost) ELSE RAdd(c, cost)
        qty2   == IF trade.action = "buy"
                  THEN RAdd(held, amount) ELSE RMax(R(0), RSub(held, amount))
        pos2   == [t \in DOMAIN pos \cup {token} |->
                     IF t = token THEN qty2 ELSE pos[t]]
    IN  [cash |-> cash2, positions |-> pos2,
         total_value |-> calculate_total_value(cash2, pos2)]

\* the body of update_portfolio(trade, result): the portfolio it leaves
apply_fill(c, pos, trade, executed_price) ==
    LET token  == trade.token
        amount == trade.amount
        held   == Get(pos, token, R(0))
        cost   == RMul(amount, executed_price)
        cash2  == IF trade.action = "buy"
                  THEN RSub(c, cost) ELSE RAdd(c, cost)
        qty2   == IF trade.action = "buy"
                  THEN RAdd(held, amount) ELSE RSub(held, amount)
        pos2   == [t \in DOMAIN pos \cup {token} |->
                     IF t = token THEN qty2 ELSE pos[t]]
    IN  [cash |-> cash2, positions |-> pos2,
         total_value |-> calculate_total_value(cash2, pos2)]

\* update_portfolio(trade, result) for the oldest sized trade
update_portfolio(executed_price) ==
    /\ trades # <<>>
    /\ LET pf == apply_fill(cash, positions, Head(trades), executed_price)
       IN  /\ cash' = pf.cash
           /\ positions' = pf.positions
           /\ total_value' = pf.total_value
    /\ trades' = Tail(trades)
    /\ n_applied' = n_applied + 1
    /\ UNCHANGED <<price_feed, exec_report>>
    /\ UNCHANGED <<memVars, sigVars, btVars>>

\* what `await self.jupiter.execute_trade(...)` does for one trade: it
\* raises, or it returns a result dict with 'success' and, possibly,
\* 'executed_price'
ExecRaises == [kind |-> "raises", success |-> FALSE, has_price |-> FALSE,
               executed_price |-> R(0)]
ExecResult(success, has_price, p) ==
    [kind |-> "result", success |-> success, has_price |-> has_price,
     executed_price |-> p]
ExecOutcomes ==
    {ExecRaises, ExecResult(FALSE, FALSE, R(0)), ExecResult(FALSE, TRUE, R(1)),
     ExecResult(TRUE, FALSE, R(0)), ExecResult(TRUE, TRUE, R(10))}

\* variant: the portfolio is updated whenever the result carries a price
ExecuteOne_unchecked(pf, results, trade, outcome) ==
    LET applied == outcome.kind = "result" /\ outcome.has_price
        pf2     == IF applied
                   THEN apply_fill(pf.cash, pf.positions, trade,
                                   outcome.executed_price)
                   ELSE pf
        report  == [success |-> outcome.kind = "result" /\ outcome.success]
    IN  [pf      |-> pf2,
         results |-> [t \in DOMAIN results \cup {trade.token} |->
                         IF t = trade.token THEN report ELSE results[t]],
         applied |-> applied]

\* one turn of the loop of execute_trades.  A result without
\* 'executed_price' makes update_portfolio raise before it changes
\* anything, and the except branch reports success False.
ExecuteOne(pf, results, trade, outcome) ==
    LET wants   == outcome.kind = "result" /\ outcome.success
        applied == wants /\ outcome.has_price
        pf2     == IF applied
                   THEN apply_fill(pf.cash, pf.positions, trade,
                                   outcome.executed_price)
                   ELSE pf
        report  == [success |-> applied]
    IN  [pf      |-> pf2,
         results |-> [t \in DOMAIN results \cup {trade.token} |->
                         IF t = trade.token THEN report ELSE results[t]],
         applied |-> applied]

RECURSIVE RunTrades(_, _, _, _, _)
\* the loop of execute_trades over the list ts with the outcomes outs;
\* log keeps, per trade, the portfolio before and after its turn
RunTrades(ts, outs, pf, results, log) ==
    IF ts = <<>> THEN [pf |-> pf, results |-> results, log |-> log]
    ELSE LET r == ExecuteOne(pf, results, Head(ts), Head(outs))
         IN  RunTrades(Tail(ts), Tail(outs), r.pf, r.results,
                       Append(log, [trade   |-> Head(ts),
                                    outcome |-> Head(outs),
                                    applied |-> r.applied,
                                    before  |-> pf,
                                    after   |-> r.pf]))

ExecIdle == [called |-> FALSE, results |-> NoReports, log |-> <<>>, n |-> 0]

\* execute_trades(trades) on the sized trades
ExecuteTrades(outs) ==
    /\ trades # <<>>
    /\ LET run == RunTrades(trades, outs,
                            [cash |-> cash, positions |-> positions,
                             total_value |-> total_value],
                            NoReports, <<>>)
       IN  /\ cash' = run.pf.cash
           /\ positions' = run.pf.positions
           /\ total_value' = run.pf.total_value
           /\ exec_report' = [called |-> TRUE, results |-> run.results,
                              log |-> run.log, n |-> Len(trades)]
    /\ n_applied' = n_applied + Len(trades)
    /\ trades' = <<>>
    /\ UNCHANGED price_feed
    /\ UNCHANGED <<memVars, sigVars, btVars>>

-----------------------------------------------------------------------------
(* MemorySystem *)

\* Strings that the code concatenates are sequences of text atoms.
\* A data value is a number or a (non-numeric) string.
Num(r)  == [k |-> "num", v |-> r,    s |-> <<>>]
Str(t)  == [k |-> "str", v |-> R(0), s |-> t]

\* the four values a market_conditions dict holds under 'trend',
\* 'volatility', 'volume' and 'sentiment', "-" for a key it lacks
Map(c)  == [k |-> "map", v |-> R(0), s |-> c]

NoData  == [x \in {} |-> Num(R(0))]

\* an argument that is no dict: a plain string, or None
NotMapping(text) == [x \in {"<str>"} |-> Str(text)]
IsMapping(data)  == "<str>" \notin DOMAIN data
NoEntry == [timestamp |-> 0, type |-> <<>>, data |-> NoData, importance |-> R(0)]

\* self.metrics as __init__ leaves it
NoMetrics == [trades |-> <<>>, win_rate |-> R(0), avg_profit |-> R(0),
              total_trades |-> 0]

\* what the last call of add did: the entry it built, the short-term
\* buffer after the append, whether it went on to consolidate, and the
\* long-term buffer and the metrics as they stood when consolidation began
NoAdd == [ok |-> FALSE, entry |-> NoEntry, appended |-> <<>>,
          consolidated |-> FALSE, long_before |-> <<>>,
          metrics_before |-> NoMetrics]

\* float(value): a number converts, a non-numeric string raises ValueError
Float(value) == [raised |-> value.k # "num", v |-> value.v]

_calculate_importance(entry_type, data) ==
    IF entry_type \in {<<"trade">>, <<"analysis">>} /\ ~IsMapping(data) THEN
        \* data.get on a string raises AttributeError
        [raised |-> TRUE, v |-> R(0)]
    ELSE IF entry_type = <<"trade">> THEN
        LET size   == Float(Get(data, "size", Num(R(0))))
            profit == Float(Get(data, "profit", Num(R(0))))
        IN  IF size.raised \/ profit.raised THEN [raised |-> TRUE, v |-> R(0)]
            ELSE [raised |-> FALSE,
                  v |-> RMin(R(1),
                          RAdd(RAdd(<<1, 2>>,
                                    RMin(<<3, 10>>, RDiv(RAbs(size.v), R(10000)))),
                               RMin(<<1, 5>>, RDiv(RAbs(profit.v), R(1000)))))]
    ELSE IF entry_type = <<"error">> THEN
        [raised |-> FALSE, v |-> RMin(R(1), RAdd(<<1, 2>>, <<3, 10>>))]
    ELSE IF entry_type = <<"analysis">> THEN
        LET confidence == Float(Get(data, "confidence", Num(R(0))))
            risk_score == Float(Get(data, "risk_score", Num(R(0))))
        IN  IF confidence.raised \/ risk_score.raised
            THEN [raised |-> TRUE, v |-> R(0)]
            ELSE [raised |-> FALSE,
                  v |-> RMin(R(1),
                          RAdd(RAdd(<<1, 2>>, RMul(<<1, 5>>, confidence.v)),
                               RMul(<<1, 5>>, risk_score.v)))]
    ELSE [raised |-> FALSE, v |-> RMin(R(1), <<1, 2>>)]

\* variant: a full deque is never trimmed
DequeAppend_unbounded(q, e, maxlen) == Append(q, e)

\* variant: a full deque refuses the new element instead of evicting
DequeAppend_keep_oldest(q, e, maxlen) ==
    IF Len(q) >= maxlen THEN q ELSE Append(q, e)

\* deque(maxlen=maxlen).append(e)
DequeAppend(q, e, maxlen) ==
    IF maxlen = 0 THEN q
    ELSE IF Len(q) >= maxlen THEN Append(Tail(q), e)
    ELSE Append(q, e)

RECURSIVE DequeExtend(_, _, _)
\* deque(maxlen=maxlen).extend(es)
DequeExtend(q, es, maxlen) ==
    IF es = <<>> THEN q
    ELSE DequeExtend(DequeAppend(q, Head(es), maxlen), Tail(es), maxlen)

\* variant: strict comparison with the threshold
PromoteToLongTerm_strict(importance) == RLt(importance_threshold, importance)

\* `importance >= self.importance_threshold`
PromoteToLongTerm(importance) == RLe(importance_threshold, importance)

\* variant: consolidation waits for one entry more than the interval
ShouldConsolidate_strict(len) == len > consolidation_interval

\* variant: consolidation fires one entry early
ShouldConsolidate_early(len) == len + 1 >= consolidation_interval

\* `len(self.short_term) >= self.consolidation_interval`
ShouldConsolidate(len) == len >= consolidation_interval

\* f"{memory.type}_{memory.data.get('token', '')}"
GroupKey(m) ==
    LET token == IF "token" \in DOMAIN m.data
                 THEN (IF m.data["token"].k = "str" THEN m.data["token"].s
                       ELSE <<ToString(m.data["token"].v)>>)
                 ELSE <<>>
    IN  m.type \o <<"_">> \o token

RECURSIVE GroupKeys(_, _)
\* keys of the `groups` dict, in order of first insertion
GroupKeys(buf, seen) ==
    IF buf = <<>> THEN seen
    ELSE LET key == GroupKey(Head(buf))
         IN  GroupKeys(Tail(buf),
                       IF \E i \in 1..Len(seen) : seen[i] = key
                       THEN seen ELSE Append(seen, key))

GroupOf(buf, key) == SelectSeq(buf, LAMBDA m : GroupKey(m) = key)

\* a list value whose items are strings and numbers: s holds the items in
\* order, "#" standing for a number, and v holds the numbers in order
\* (numerator and denominator of each) behind the name of the list object
\* (the call of add whose payload brought it in), because the merge binds
\* a second name to the same list
List(items, numbers, oid) ==
    [k |-> "list", v |-> <<oid>> \o numbers, s |-> items]

ListNumbers(l) ==
    [j \in 1..((Len(l.v) - 1) \div 2) |-> <<l.v[2 * j], l.v[2 * j + 1]>>]

\* list.append(number)
ListAppend(l, r) == [l EXCEPT !.s = Append(@, "#"), !.v = @ \o r]

\* isinstance(value, (int, float))
IsNumeric(value) == value.k = "num"

RECURSIVE MergeKey(_, _, _, _, _)
\* what the first loop of _merge_memory_data leaves in merged[key] after
\* memories i..upto: st is "absent", "list" (the fresh list, holding
\* numbers: sum, cnt), "alias" (val is a list that belongs to a memory),
\* "val" (val is a value that is no list) or "raised" (append on a value
\* that is no list, at memory `at`); muts are the memories' lists that
\* append has grown
MergeKey(memories, key, i, upto, acc) ==
    IF i > upto \/ acc.st = "raised" THEN acc
    ELSE LET data == memories[i].data
         IN  IF key \notin DOMAIN data
             THEN MergeKey(memories, key, i + 1, upto, acc)
             ELSE LET value == data[key]
                      grown == ListAppend(acc.val, value.v)
                      acc2  ==
                        IF IsNumeric(value) THEN
                            IF acc.st = "val"
                            THEN [acc EXCEPT !.st = "raised", !.at = i]
                            ELSE IF acc.st = "alias"
                            THEN [acc EXCEPT !.val = grown,
                                             !.muts = (@ \ {acc.val})
                                                      \cup {grown}]
                            ELSE [acc EXCEPT !.st = "list",
                                             !.sum = RAdd(acc.sum, value.v),
                                             !.cnt = acc.cnt + 1]
                        ELSE [acc EXCEPT !.st = IF value.k = "list"
                                                THEN "alias" ELSE "val",
                                         !.sum = R(0), !.cnt = 0,
                                         !.val = value]
                  IN  MergeKey(memories, key, i + 1, upto, acc2)

MergeStart == [st |-> "absent", sum |-> R(0), cnt |-> 0, val |-> Num(R(0)),
               at |-> 0, muts |-> {}]

\* the first loop of _merge_memory_data, over memories 1..upto
FirstLoop(memories, upto) ==
    [key \in UNION {DOMAIN memories[i].data : i \in 1..Len(memories)} |->
        MergeKey(memories, key, 1, upto, MergeStart)]

\* the last memory the first loop gets past, `whole` being what it would
\* leave if append did not end it.  The loop ends at the first memory
\* where append raises; a dict carries no key order here, so of that
\* memory no key is taken as visited.
LastVisited(whole, len) ==
    LET stops == {whole[key].at :
                    key \in {x \in DOMAIN whole : whole[x].st = "raised"}}
    IN  IF stops = {} THEN len
        ELSE (CHOOSE a \in stops : \A b \in stops : a <= b) - 1

\* `isinstance(value, list) and value and isinstance(value[0], ...)` for
\* a list that belongs to a memory
Averaged(m) == m.st = "alias" /\ m.val.s # <<>> /\ m.val.s[1] = "#"

\* the second loop of _merge_memory_data and its return: the merged
\* dict, whether building it raised, and the memories' lists it grew
SecondLoop(whole, merged) ==
    [raised  |-> \/ \E key \in DOMAIN whole : whole[key].st = "raised"
                 \* sum(value) raises TypeError on an item that is no number
                 \/ \E key \in DOMAIN merged :
                        /\ Averaged(merged[key])
                        /\ \E j \in 1..Len(merged[key].val.s) :
                               merged[key].val.s[j] # "#",
     data    |-> [key \in DOMAIN merged |->
                    IF merged[key].st = "list"
                    THEN Num(RDiv(merged[key].sum, R(merged[key].cnt)))
                    ELSE IF Averaged(merged[key])
                    THEN Num(RDiv(RSum(ListNumbers(merged[key].val),
                                       DOMAIN ListNumbers(merged[key].val)),
                                  R(Len(merged[key].val.s))))
                    ELSE merged[key].val],
     changed |-> UNION {{[key |-> key, list |-> l] :
                           l \in merged[key].muts} : key \in DOMAIN merged}]

MergeFrom(memories, whole) ==
    SecondLoop(whole,
               FirstLoop(memories, LastVisited(whole, Len(memories))))

_merge_memory_data(memories) ==
    MergeFrom(memories, FirstLoop(memories, Len(memories)))

RECURSIVE MaxImportance(_)
MaxImportance(group) ==
    IF Len(group) = 1 THEN group[1].importance
    ELSE RMax(group[1].importance, MaxImportance(Tail(group)))

\* one group of more than one memory: its merged entry is put before
\* those of the groups that follow (rest), unless the merge raises
MergeGroup(group, t, merged, rest) ==
    IF merged.raised
    THEN [raised |-> TRUE, out |-> <<>>, changed |-> merged.changed]
    ELSE [raised  |-> rest.raised,
          out     |-> <<[timestamp  |-> t,
                         type       |-> group[1].type,
                         data       |-> merged.data,
                         importance |-> MaxImportance(group)]>> \o rest.out,
          changed |-> merged.changed \cup rest.changed]

OneGroup(group, t, rest) ==
    IF Len(group) > 1
    THEN MergeGroup(group, t, _merge_memory_data(group), rest)
    ELSE rest

RECURSIVE ConsolidateGroups(_, _, _)
\* the loop over groups.values(): one merged entry per group of more
\* than one memory; groups of one are not carried over; the loop ends at
\* the first group whose merge raises
ConsolidateGroups(buf, keys, t) ==
    IF keys = <<>> THEN [raised |-> FALSE, out |-> <<>>, changed |-> {}]
    ELSE OneGroup(GroupOf(buf, Head(keys)), t,
                  ConsolidateGroups(buf, Tail(keys), t))

\* a data dict after the lists named in `changed` have grown
Renew(data, changed) ==
    [key \in DOMAIN data |->
        IF \E c \in changed : /\ c.key = key
                              /\ data[key].k = "list"
                              /\ c.list.v[1] = data[key].v[1]
        THEN (CHOOSE c \in changed :
                  c.key = key /\ c.list.v[1] = data[key].v[1]).list
        ELSE data[key]]

\* the entries of a buffer after the lists named in `changed` have grown
RenewAll(buf, changed) ==
    [i \in 1..Len(buf) |-> [buf[i] EXCEPT !.data = Renew(@, changed)]]

\* the short-term buffer _consolidate_memories leaves behind, and the
\* lists it grew, res being the outcome of the loop over the groups; an
\* exception is raised before clear() and is absorbed
Absorb(buf, res) ==
    \* memory.data.get in the grouping loop raises on a string
    IF \E i \in 1..Len(buf) : ~IsMapping(buf[i].data)
    THEN [short_term |-> buf, changed |-> {}]
    ELSE IF res.raised
    THEN [short_term |-> RenewAll(buf, res.changed),
          changed    |-> res.changed]
    ELSE [short_term |-> DequeExtend(<<>>, res.out, ShortCapacity),
          changed    |-> res.changed]

_consolidate_memories(buf, t) ==
    Absorb(buf, ConsolidateGroups(buf, GroupKeys(buf, <<>>), t))

RECURSIVE ProfitSum(_)
ProfitSum(ts) ==
    IF ts = <<>> THEN R(0)
    ELSE RAdd(Float(Get(Head(ts), "profit", Num(R(0)))).v, ProfitSum(Tail(ts)))

_update_metrics(m, trade_data) ==
    LET n      == m.total_trades + 1
        ts     == Append(m.trades, trade_data)
        wr     == IF "profit" \in DOMAIN trade_data THEN
                      IF RLt(R(0), Float(trade_data["profit"]).v)
                      THEN RDiv(RAdd(RMul(m.win_rate, R(n - 1)), R(1)), R(n))
                      ELSE RDiv(RMul(m.win_rate, R(n - 1)), R(n))
                  ELSE m.win_rate
    IN  [trades       |-> ts,
         win_rate     |-> wr,
         avg_profit   |-> RDiv(ProfitSum(ts), R(Len(ts))),
         total_trades |-> n]

\* constructor arguments
MaxSizes   == {1, 2}
Thresholds == {<<1, 2>>, <<9, 10>>}
Intervals  == 1..(ShortCapacity + 1)

\* (entry_type, data) pairs handed to add
Payloads ==
    { [type |-> <<"trade">>,
       data |-> [token |-> Str(<<"SOL">>), size |-> Num(R(3000)),
                 profit |-> Num(R(200))]],
      [type |-> <<"trade">>,
       data |-> [token |-> Str(<<"SOL">>), size |-> Num(R(1000)),
                 profit |-> Num(R(-50))]],
      [type |-> <<"trade">>,
       data |-> [token |-> Str(<<"SOL">>), size |-> Str(<<"n/a">>)]],
      [type |-> <<"error">>,    data |-> NoData],
      [type |-> <<"analysis">>,
       data |-> [token |-> Str(<<"JUP">>), confidence |-> Num(<<1, 2>>),
                 risk_score |-> Num(R(0))]],
      [type |-> <<"analysis">>,
       data |-> [token |-> Str(<<"JUP">>), confidence |-> Num(R(-3)),
                 risk_score |-> Num(R(0))]],
      [type |-> <<"note">>,     data |-> [token |-> Str(<<"SOL">>)]] }

-----------------------------------------------------------------------------
(* MemorySystem.get_relevant_memories *)

\* _compare_market_conditions: the share of the four metrics both dicts
\* hold with equal values; 0.0 when an argument is no dict
_compare_market_conditions(cond1, cond2) ==
    IF cond1.k # "map" \/ cond2.k # "map" THEN R(0)
    ELSE Rat(Cardinality({i \in 1..4 : /\ cond1.s[i] # "-"
                                       /\ cond2.s[i] # "-"
                                       /\ cond1.s[i] = cond2.s[i]}), 4)

\* _calculate_relevance(memory, context) at clock reading t; one clock
\* tick stands for half a day, so 24 * 3600 seconds are 2 ticks
_calculate_relevance(memory, context, t) ==
    LET time_factor == RMax(R(0), RSub(R(1), RDiv(R(t - memory.timestamp), R(2))))
        r1 == RMul(<<3, 10>>, time_factor)
        r2 == IF /\ "token" \in DOMAIN context
                 /\ "token" \in DOMAIN memory.data
                 /\ context["token"] = memory.data["token"]
              THEN RAdd(r1, <<3, 10>>) ELSE r1
        r3 == IF /\ "type" \in DOMAIN context
                 /\ context["type"].k = "str"
                 /\ context["type"].s = memory.type
              THEN RAdd(r2, <<1, 5>>) ELSE r2
        r4 == IF /\ "market_conditions" \in DOMAIN context
                 /\ "market_conditions" \in DOMAIN memory.data
              THEN RAdd(r3, RMul(<<1, 5>>,
                        _compare_market_conditions(
                            context["market_conditions"],
                            memory.data["market_conditions"])))
              ELSE r3
    IN  [raised |-> "token" \in DOMAIN context /\ ~IsMapping(memory.data),
         v      |-> RMin(R(1), r4)]

RECURSIVE InsertDesc(_, _)
\* place x behind every element whose relevance is >= its own
InsertDesc(sorted, x) ==
    IF sorted = <<>> THEN <<x>>
    ELSE IF RLe(x.rel, Head(sorted).rel)
         THEN <<Head(sorted)>> \o InsertDesc(Tail(sorted), x)
         ELSE <<x>> \o sorted

RECURSIVE SortDesc(_, _)
\* sorted(scored_memories, key=lambda x: x[0], reverse=True), a stable sort
SortDesc(scored, acc) ==
    IF scored = <<>> THEN acc
    ELSE SortDesc(Tail(scored), InsertDesc(acc, Head(scored)))

\* f"{memory.timestamp}_{memory.type}"
MemoryKey(m) == <<ToString(m.timestamp)>> \o <<"_">> \o m.type

RECURSIVE Unique_all(_, _, _, _)
\* variant: the `seen` set is not consulted
Unique_all(sorted, seen, out, limit) ==
    IF sorted = <<>> THEN out
    ELSE LET out2 == Append(out, Head(sorted))
         IN  IF Len(out2) >= limit THEN out2
             ELSE Unique_all(Tail(sorted), seen, out2, limit)

RECURSIVE Unique(_, _, _, _)
\* the loop that fills unique_memories
Unique(sorted, seen, out, limit) ==
    IF sorted = <<>> THEN out
    ELSE LET memory_key == MemoryKey(Head(sorted).m)
         IN  IF memory_key \notin seen
             THEN LET out2 == Append(out, Head(sorted))
                  IN  IF Len(out2) >= limit THEN out2
                      ELSE Unique(Tail(sorted), seen \cup {memory_key},
                                  out2, limit)
             ELSE Unique(Tail(sorted), seen, out, limit)

RecallIdle == [called |-> FALSE, raised |-> FALSE, out |-> <<>>,
               scores |-> <<>>, limit |-> 0]

\* get_relevant_memories(context, limit, memory_types), scoring at clock
\* reading t; memory_types = <<>> stands for None
get_relevant_memories(context, limit, memory_types, t) ==
    LET memories == short_term \o long_term
        kept     == SelectSeq(memories, LAMBDA m :
                        memory_types = <<>>
                        \/ \E i \in 1..Len(memory_types) : memory_types[i] = m.type)
        scored   == [i \in 1..Len(kept) |->
                        [rel |-> _calculate_relevance(kept[i], context, t).v,
                         m   |-> kept[i]]]
        raised   == \E i \in 1..Len(kept) :
                        _calculate_relevance(kept[i], context, t).raised
        unique   == Unique(SortDesc(scored, <<>>), {}, <<>>, limit)
    IN  IF raised
        THEN [called |-> TRUE, raised |-> TRUE, out |-> <<>>, scores |-> <<>>,
              limit |-> limit]
        ELSE [called |-> TRUE, raised |-> FALSE,
              out    |-> [i \in 1..Len(unique) |-> unique[i].m],
              scores |-> [i \in 1..Len(unique) |-> unique[i].rel],
              limit  |-> limit]

\* contexts handed to get_relevant_memories
Contexts ==
    { NoData,
      [token |-> Str(<<"SOL">>)],
      [token |-> Str(<<"JUP">>), type |-> Str(<<"analysis">>),
       market_conditions |-> Map(<<"up", "high", "-", "-">>)] }

Limits == {0, 1, 5}

TypeFilters == {<<>>, <<<<"trade">>, <<"error">>>>}

GetRelevant(context, limit, memory_types, t) ==
    /\ now' = t
    /\ recall' = get_relevant_memories(context, limit, memory_types, t)
    /\ UNCHANGED <<max_size, importance_threshold, consolidation_interval,
                   short_term, long_term, metrics, last_add, n_calls,
                   n_stored, n_below, n_fired>>
    /\ UNCHANGED <<pfVars, sigVars, btVars>>

\* (entry_type, data) pairs handed to add while the store is queried
StorePayloads ==
    { [type |-> <<"trade">>,
       data |-> [token |-> Str(<<"SOL">>), size |-> Num(R(3000)),
                 profit |-> Num(R(200))]],
      [type |-> <<"trade">>,
       data |-> [token |-> Str(<<"SOL">>), size |-> Num(R(1000))]],
      [type |-> <<"trade">>,
       data |-> [token |-> Str(<<"SOL">>), size |-> Str(<<"n/a">>)]],
      [type |-> <<"error">>,    data |-> NotMapping(<<"disk full">>)],
      [type |-> <<"analysis">>,
       data |-> [token |-> Str(<<"JUP">>), confidence |-> Num(<<1, 2>>),
                 risk_score |-> Num(R(0)),
                 market_conditions |-> Map(<<"up", "low", "-", "-">>)]] }

\* the payload of the n-th call of add: a dict freshly built by the caller,
\* so a list in it is a list object of its own
Stamp(data, n) ==
    [key \in DOMAIN data |->
        IF data[key].k = "list"
        THEN [data[key] EXCEPT !.v = <<n>> \o Tail(@)]
        ELSE data[key]]

\* the buffers and metrics add leaves: lt1 and m1 are the long-term buffer
\* and the metrics after the new entry went in, res what consolidation (if
\* it ran) returned; the lists consolidation grew are shared by all three
Settle(lt1, m1, res) ==
    /\ long_term' = RenewAll(lt1, res.changed)
    /\ metrics' = [m1 EXCEPT !.trades =
                      [i \in 1..Len(m1.trades) |->
                         Renew(m1.trades[i], res.changed)]]
    /\ short_term' = res.short_term

\* MemorySystem.add(entry_type, data); t is the reading of datetime.now()
Add(entry_type, data, t) ==
    /\ n_calls' = n_calls + 1
    /\ now' = t
    /\ LET imp == _calculate_importance(entry_type, data)
       IN  IF imp.raised THEN
               /\ last_add' = [NoAdd EXCEPT !.long_before = long_term,
                                            !.metrics_before = metrics]
               /\ UNCHANGED <<short_term, long_term, metrics, n_stored, n_below,
                              n_fired>>
           ELSE
               LET fresh == Stamp(data, n_calls + 1)
                   entry == [timestamp |-> t, type |-> entry_type,
                             data |-> fresh, importance |-> imp.v]
                   st1   == DequeAppend(short_term, entry, ShortCapacity)
                   lt1   == IF PromoteToLongTerm(imp.v)
                            THEN DequeAppend(long_term, entry, max_size)
                            ELSE long_term
                   m1    == IF entry_type = <<"trade">>
                            THEN _update_metrics(metrics, fresh)
                            ELSE metrics
                   fire  == ShouldConsolidate(Len(st1))
               IN  /\ Settle(lt1, m1,
                             IF fire THEN _consolidate_memories(st1, t)
                             ELSE [short_term |-> st1, changed |-> {}])
                   /\ last_add' = [ok |-> TRUE, entry |-> entry,
                                   appended |-> st1, consolidated |-> fire,
                                   long_before |-> lt1,
                                   metrics_before |-> m1]
                   /\ n_stored' = n_stored + 1
                   /\ n_fired' = IF fire THEN n_fired + 1 ELSE n_fired
                   /\ n_below' = IF RLt(imp.v, importance_threshold)
                                 THEN n_below + 1 ELSE n_below
    /\ recall' = RecallIdle
    /\ UNCHANGED <<max_size, importance_threshold, consolidation_interval>>
    /\ UNCHANGED <<pfVars, sigVars, btVars>>

-----------------------------------------------------------------------------
(* MarketAnalyzer.generate_trading_signals on arbitrary arguments *)

\* variant of the except branch that reports full confidence
FallbackSignal_confident ==
    [action |-> "HOLD", confidence |-> R(1), signal_strength |-> R(0),
     risk_score |-> R(0), liquidity_score |-> R(0)]

\* the dict returned by the except branch
FallbackSignal ==
    [action |-> "HOLD", confidence |-> R(0), signal_strength |-> R(0),
     risk_score |-> R(0), liquidity_score |-> R(0)]

\* reading key k of argument d raises: d is no dict (AttributeError on
\* .get), or the value is no number (TypeError in the comparison or the
\* division)
ReadRaises(d, k) ==
    \/ ~IsMapping(d)
    \/ k \in DOMAIN d /\ d[k].k # "num"

\* the try body raises
ScoringRaises(technical, risk, liquidity) ==
    \/ ReadRaises(technical, "rsi")
    \/ ReadRaises(technical, "macd")
    \/ ReadRaises(risk, "value_at_risk")
    \/ ReadRaises(liquidity, "depth_2_percent")

\* the floats held by a dict of numbers
Floats(d) == [k \in DOMAIN d |-> d[k].v]

\* the whole method: the try body, or the except branch when it raises
TradingSignals(technical, risk, liquidity) ==
    IF ScoringRaises(technical, risk, liquidity) THEN FallbackSignal
    ELSE generate_trading_signals(Floats(technical), Floats(risk),
                                  Floats(liquidity))

\* stands for a key the dict does not hold
Absent == [k |-> "absent", v |-> R(0), s |-> <<>>]

\* a dict holding `value` under `key`; no key at all for Absent
Field(key, value) ==
    IF value = Absent THEN NoData ELSE [x \in {key} |-> value]

Merge(d1, d2) ==
    [k \in DOMAIN d1 \cup DOMAIN d2 |-> IF k \in DOMAIN d1 THEN d1[k] ELSE d2[k]]

RsiValues   == {Absent, Num(R(20)), Num(R(30)), Num(R(50)), Num(R(80)),
                Str(<<"nan">>)}
MacdValues  == {Num(R(-1)), Num(R(0)), Num(R(1))}
VarValues   == {Num(<<-1, 20>>), Num(R(0)), Num(<<1, 10>>), Str(<<"nan">>)}
DepthValues == {Num(R(0)), Num(<<200000, 3>>), Num(R(200000))}

\* arguments handed to generate_trading_signals: dicts of indicator values,
\* and None where an upstream step delivered nothing
TechnicalArgs ==
    {Merge(Field("rsi", r), Field("macd", m)) : r \in RsiValues, m \in MacdValues}
    \cup {NotMapping(<<"None">>)}
RiskArgs ==
    {Field("value_at_risk", v) : v \in VarValues} \cup {NotMapping(<<"None">>)}
LiquidityArgs ==
    {Field("depth_2_percent", d) : d \in DepthValues} \cup {NotMapping(<<"None">>)}

GenerateSignals(technical, risk, liquidity) ==
    /\ sig_in' = [technical |-> technical, risk |-> risk,
                  liquidity |-> liquidity, called |-> TRUE]
    /\ signal' = TradingSignals(technical, risk, liquidity)
    /\ UNCHANGED <<analysis, rsi_call>>
    /\ UNCHANGED <<pfVars, memVars, btVars>>

-----------------------------------------------------------------------------
(* MarketAnalyzer.analyze_token *)

\* what the body of a try block does: it raises, or it delivers a value
Raised       == [raised |-> TRUE,  value |-> NoData]
Delivers(v)  == [raised |-> FALSE, value |-> v]

\* calculate_technical_indicators: the dict of indicators, {} when the
\* computation raises
calculate_technical_indicators(body) ==
    IF body.raised THEN NoData ELSE body.value

\* calculate_risk_metrics: the dict of risk metrics, {} when the
\* computation raises
calculate_risk_metrics(body) ==
    IF body.raised THEN NoData ELSE body.value

\* get_liquidity_metrics: depth_2_percent read from the market depth, {}
\* when the depth provider raises
get_liquidity_metrics(body) ==
    IF body.raised THEN NoData ELSE body.value

\* outcomes of the indicator, risk and depth computations
TechnicalBodies ==
    {Raised} \cup
    {Delivers(Merge(Field("rsi", r), Field("macd", m))) :
        r \in {Num(R(20)), Num(R(30)), Num(R(50)), Num(R(70)), Num(R(80))},
        m \in {Num(R(-1)), Num(R(1))}}
RiskBodies ==
    {Raised} \cup
    {Delivers(Field("value_at_risk", v)) : v \in {Num(R(0)), Num(<<1, 10>>)}}
DepthBodies ==
    {Raised} \cup
    {Delivers(Field("depth_2_percent", d)) :
        d \in {Num(R(0)), Num(<<200000, 3>>), Num(R(200000))}}

AnalysisIdle ==
    [called |-> FALSE, raised |-> FALSE, providers_ok |-> TRUE,
     technical_failed |-> FALSE, risk_failed |-> FALSE,
     technical |-> NoData, risk |-> NoData, liquidity |-> NoData,
     signals |-> FallbackSignal]

\* analyze_token: metrics_ok and history_ok tell whether get_token_metrics
\* and get_historical_prices return; price_change_ok whether the call of
\* calculate_price_change does (the class does not define that method).
\* Every exception is logged and re-raised.
analyze_token(metrics_ok, history_ok, depth, tech, rsk, price_change_ok) ==
    LET liquidity == get_liquidity_metrics(depth)
        technical == calculate_technical_indicators(tech)
        risk      == calculate_risk_metrics(rsk)
        signals   == TradingSignals(technical, risk, liquidity)
    IN  IF ~metrics_ok \/ ~history_ok \/ ~price_change_ok
        THEN [AnalysisIdle EXCEPT !.called = TRUE, !.raised = TRUE,
                                  !.providers_ok = metrics_ok /\ history_ok]
        ELSE [called |-> TRUE, raised |-> FALSE, providers_ok |-> TRUE,
              technical_failed |-> tech.raised, risk_failed |-> rsk.raised,
              technical |-> technical, risk |-> risk, liquidity |-> liquidity,
              signals |-> signals]

AnalyzeToken(metrics_ok, history_ok, depth, tech, rsk, price_change_ok) ==
    /\ analysis' = analyze_token(metrics_ok, history_ok, depth, tech, rsk,
                                 price_change_ok)
    /\ UNCHANGED <<sig_in, signal, rsi_call>>
    /\ UNCHANGED <<pfVars, memVars, btVars>>

-----------------------------------------------------------------------------
(* MarketAnalyzer.calculate_rsi and BasicMarketScanner._calculate_simple_rsi *)

\* the float nan
NaN == [k |-> "nan", v |-> R(0), s |-> <<>>]

\* prices.diff(): element i is prices[i] - prices[i-1], the first is nan
Diff(prices) ==
    [i \in 1..Len(prices) |->
        IF i = 1 THEN NaN ELSE Num(R(prices[i] - prices[i - 1]))]

\* delta.where(delta > 0, 0): a comparison with nan is False
Gains(delta) ==
    [i \in 1..Len(delta) |->
        IF delta[i].k = "num" /\ RLt(R(0), delta[i].v) THEN delta[i].v ELSE R(0)]

\* -delta.where(delta < 0, 0)
Losses(delta) ==
    [i \in 1..Len(delta) |->
        IF delta[i].k = "num" /\ RLt(delta[i].v, R(0))
        THEN RSub(R(0), delta[i].v) ELSE R(0)]

RECURSIVE SeqSum(_)
SeqSum(xs) == IF xs = <<>> THEN R(0) ELSE RAdd(Head(xs), SeqSum(Tail(xs)))

\* the last element of xs.rolling(window=period).mean(): nan while fewer
\* than `period` observations are in the window
RollingMeanLast(xs, period) ==
    IF Len(xs) < period THEN NaN
    ELSE Num(RDiv(SeqSum(SubSeq(xs, Len(xs) - period + 1, Len(xs))), R(period)))

\* the last element of 100 - (100 / (1 + gain / loss)) in float arithmetic:
\* 0/0 is nan, x/0 is inf and 100/inf is 0
RsiLast(gain, loss) ==
    IF gain.k = "nan" \/ loss.k = "nan" THEN NaN
    ELSE IF loss.v = R(0) THEN (IF gain.v = R(0) THEN NaN ELSE Num(R(100)))
    ELSE Num(RSub(R(100), RDiv(R(100), RAdd(R(1), RDiv(gain.v, loss.v)))))

\* calculate_rsi(prices, period); rsi.iloc[-1] raises on the empty series
calculate_rsi(prices, period) ==
    IF prices = <<>> THEN Num(R(50))
    ELSE RsiLast(RollingMeanLast(Gains(Diff(prices)), period),
                 RollingMeanLast(Losses(Diff(prices)), period))

\* _calculate_simple_rsi(prices, period); avg_loss.iloc[-1] raises on the
\* empty series, and nan == 0 is False
_calculate_simple_rsi(prices, period) ==
    IF prices = <<>> THEN Num(R(50))
    ELSE LET avg_gain == RollingMeanLast(Gains(Diff(prices)), period)
             avg_loss == RollingMeanLast(Losses(Diff(prices)), period)
         IN  IF avg_loss = Num(R(0)) THEN Num(R(100))
             ELSE RsiLast(avg_gain, avg_loss)

\* prices of the series and the periods handed to the two functions (the
\* default period is 14)
PriceLevels == {1, 2, 3}
RsiPeriods  == {2, 3}

RECURSIVE SeqsUpTo(_, _)
SeqsUpTo(S, n) ==
    IF n = 0 THEN {<<>>}
    ELSE LET shorter == SeqsUpTo(S, n - 1)
         IN  shorter \cup {Append(q, x) : q \in shorter, x \in S}

RsiIdle == [called |-> FALSE, prices |-> <<>>, period |-> 0,
            rsi |-> Num(R(50)), simple_rsi |-> Num(R(50))]

CalculateRsi(prices, period) ==
    /\ rsi_call' = [called |-> TRUE, prices |-> prices, period |-> period,
                    rsi |-> calculate_rsi(prices, period),
                    simple_rsi |-> _calculate_simple_rsi(prices, period)]
    /\ UNCHANGED <<sig_in, signal, analysis>>
    /\ UNCHANGED <<pfVars, memVars, btVars>>

-----------------------------------------------------------------------------
(* CryptoBacktesterSimplified *)

\* trading_pairs of the backtester
TradingPairs == {"SOL", "JUP"}

\* the portfolio __init__ builds
StartPortfolio(initial_capital) ==
    [cash |-> initial_capital, tokens |-> [pair \in TradingPairs |-> R(0)]]

\* variant: a buy is executed whatever it costs
execute_trade_overdrawn(pf, token, action, quantity, current_price) ==
    IF RLe(quantity, R(0)) THEN [returned |-> "none", portfolio |-> pf]
    ELSE IF action = "buy" /\ token \in DOMAIN pf.tokens THEN
        [returned  |-> "trade",
         portfolio |-> [cash   |-> RSub(pf.cash, RMul(quantity, current_price)),
                        tokens |-> [pf.tokens EXCEPT ![token] =
                                       RAdd(@, quantity)]]]
    ELSE [returned |-> "none", portfolio |-> pf]

\* execute_trade(token, action, quantity, current_price): what it returns
\* (a TradeExecution, None, or the KeyError of a token outside
\* trading_pairs) and the portfolio it leaves
execute_trade(pf, token, action, quantity, current_price) ==
    LET executed_price == current_price
    IN  IF RLe(quantity, R(0)) THEN [returned |-> "none", portfolio |-> pf]
        ELSE IF action = "buy" THEN
            LET total_cost == RMul(quantity, executed_price)
                paid       == [pf EXCEPT !.cash = RSub(@, total_cost)]
            IN  IF ~RLe(total_cost, pf.cash)
                THEN [returned |-> "none", portfolio |-> pf]
                ELSE IF token \notin DOMAIN pf.tokens
                \* cash is taken before tokens[token] raises
                THEN [returned |-> "raised", portfolio |-> paid]
                ELSE [returned  |-> "trade",
                      portfolio |-> [paid EXCEPT !.tokens[token] =
                                        RAdd(@, quantity)]]
        ELSE IF action = "sell" THEN
            IF token \notin DOMAIN pf.tokens
            THEN [returned |-> "raised", portfolio |-> pf]
            ELSE IF RLe(quantity, pf.tokens[token])
            THEN LET revenue == RMul(quantity, executed_price)
                 IN  [returned  |-> "trade",
                      portfolio |-> [cash   |-> RAdd(pf.cash, revenue),
                                     tokens |-> [pf.tokens EXCEPT ![token] =
                                                    RSub(@, quantity)]]]
            ELSE [returned |-> "none", portfolio |-> pf]
        ELSE [returned |-> "none", portfolio |-> pf]

NoExecution ==
    [called |-> FALSE, token |-> "SOL", action |-> "hold", quantity |-> R(0),
     price |-> R(0), returned |-> "none", before |-> StartPortfolio(R(0))]

\* one call of execute_trade on the backtester
ExecuteTrade(token, action, quantity, current_price) ==
    /\ LET res == execute_trade(portfolio, token, action, quantity,
                                current_price)
       IN  /\ portfolio' = res.portfolio
           /\ trade_execution' = [called |-> TRUE, token |-> token,
                                  action |-> action, quantity |-> quantity,
                                  price |-> current_price,
                                  returned |-> res.returned,
                                  before |-> portfolio]
    /\ n_executed' = n_executed + 1
    /\ UNCHANGED <<pfVars, memVars, sigVars>>

-----------------------------------------------------------------------------
(* Specifications *)

BtIdle ==
    /\ portfolio = StartPortfolio(R(0))
    /\ trade_execution = NoExecution
    /\ n_executed = 0

SigIdle ==
    /\ sig_in = [technical |-> NoData, risk |-> NoData, liquidity |-> NoData,
                 called |-> FALSE]
    /\ signal = FallbackSignal
    /\ analysis = AnalysisIdle
    /\ rsi_call = RsiIdle

MemIdle ==
    /\ max_size = 1
    /\ importance_threshold = <<1, 2>>
    /\ consolidation_interval = ShortCapacity
    /\ short_term = <<>>
    /\ long_term = <<>>
    /\ metrics = NoMetrics
    /\ now = 0
    /\ last_add = NoAdd
    /\ n_calls = 0
    /\ n_stored = 0
    /\ n_below = 0
    /\ n_fired = 0
    /\ recall = RecallIdle

PfIdle ==
    /\ cash = R(0)
    /\ positions = [t \in {} |-> R(0)]
    /\ total_value = R(0)
    /\ trades = <<>>
    /\ price_feed = [t \in Tokens |-> NoPrice]
    /\ n_applied = 0
    /\ exec_report = ExecIdle

\* HedgeFundAgent.__init__
InitPortfolio ==
    /\ \E c \in InitialCapitals : cash = c /\ total_value = c
    /\ positions = [t \in {} |-> R(0)]
    /\ trades = <<>>
    /\ price_feed \in PriceFeeds
    /\ n_applied = 0
    /\ exec_report = ExecIdle
    /\ MemIdle
    /\ SigIdle
    /\ BtIdle

NextPortfolio ==
    \/ \E token \in Tokens, action \in {"buy", "sell"},
          inp \in SizingInputs, liq \in Liquidities :
            SizeTrade(token, action, inp, liq)
    \/ \E executed_price \in FillPrices : update_portfolio(executed_price)

SpecPortfolio == InitPortfolio /\ [][NextPortfolio]_vars

\* the indicator readings (confidence 1) and the liquidities of the trades
\* that get executed
ExecInputs ==
    {inp \in SizingInputs : SignalOf(inp).confidence = R(1)}
ExecLiquidities == {R(0), R(50)}

\* HedgeFundAgent(initial_capital=100) with a feed quoting every token at 10
InitExecute ==
    /\ cash = R(100)
    /\ total_value = R(100)
    /\ positions = [t \in {} |-> R(0)]
    /\ trades = <<>>
    /\ price_feed = [t \in Tokens |-> Price(R(10))]
    /\ n_applied = 0
    /\ exec_report = ExecIdle
    /\ MemIdle
    /\ SigIdle
    /\ BtIdle

NextExecute ==
    \/ \E token \in Tokens, action \in {"buy", "sell"},
          inp \in ExecInputs, liq \in ExecLiquidities :
            SizeTrade(token, action, inp, liq)
    \/ \E outs \in [1..Len(trades) -> ExecOutcomes] : ExecuteTrades(outs)

SpecExecute == InitExecute /\ [][NextExecute]_vars

\* MemorySystem.__init__
InitMemory ==
    /\ max_size \in MaxSizes
    /\ importance_threshold \in Thresholds
    /\ consolidation_interval \in Intervals
    /\ short_term = <<>>
    /\ long_term = <<>>
    /\ metrics = NoMetrics
    /\ now = 0
    /\ last_add = NoAdd
    /\ n_calls = 0
    /\ n_stored = 0
    /\ n_below = 0
    /\ n_fired = 0
    /\ recall = RecallIdle
    /\ PfIdle
    /\ SigIdle
    /\ BtIdle

NextMemory ==
    \E p \in Payloads, t \in {now, now + 1} :
        /\ n_calls < MaxAdds
        /\ t <= MaxClock
        /\ Add(p.type, p.data, t)

SpecMemory == InitMemory /\ [][NextMemory]_vars

\* MemorySystem(max_size=2, importance_threshold=0.5, consolidation_interval)
\* with the interval at the short-term capacity (as the defaults have it)
\* or above it
InitStore ==
    /\ max_size = 2
    /\ importance_threshold = <<1, 2>>
    /\ consolidation_interval \in {ShortCapacity, ShortCapacity + 1}
    /\ short_term = <<>>
    /\ long_term = <<>>
    /\ metrics = NoMetrics
    /\ now = 0
    /\ last_add = NoAdd
    /\ n_calls = 0
    /\ n_stored = 0
    /\ n_below = 0
    /\ n_fired = 0
    /\ recall = RecallIdle
    /\ PfIdle
    /\ SigIdle
    /\ BtIdle

NextStore ==
    \/ \E p \in StorePayloads, t \in {now, now + 1} :
          /\ n_calls < MaxStoreAdds
          /\ t <= MaxClock
          /\ Add(p.type, p.data, t)
    \/ \E context \in Contexts, limit \in Limits,
          memory_types \in TypeFilters, t \in {now, now + 1} :
          /\ t <= MaxClock
          /\ GetRelevant(context, limit, memory_types, t)

SpecStore == InitStore /\ [][NextStore]_vars

\* (entry_type, data) pairs handed to add while consolidation is observed:
\* entries of one type and token whose 'ref' is a string, a number or a
\* list, two trades, and two entries whose type and token differ
MergePayloads ==
    { [type |-> <<"note">>,
       data |-> [token |-> Str(<<"SOL">>), ref |-> Str(<<"a">>)]],
      [type |-> <<"note">>,
       data |-> [token |-> Str(<<"SOL">>), ref |-> Num(R(1))]],
      [type |-> <<"note">>,
       data |-> [token |-> Str(<<"SOL">>),
                 ref |-> List(<<"a">>, <<>>, 0)]],
      [type |-> <<"trade">>,
       data |-> [token |-> Str(<<"SOL">>), size |-> Num(R(3000)),
                 profit |-> Num(R(200)), ref |-> List(<<"#">>, R(2), 0)]],
      [type |-> <<"trade">>,
       data |-> [token |-> Str(<<"SOL">>), size |-> Num(R(1000)),
                 profit |-> Num(R(-50)), ref |-> Num(R(1))]],
      [type |-> <<"error">>, data |-> [token |-> Str(<<"SOL">>)]],
      [type |-> <<"note", "_", "SOL">>,
       data |-> [token |-> Str(<<"USDC">>)]],
      [type |-> <<"note">>,
       data |-> [token |-> Str(<<"SOL", "_", "USDC">>)]] }

\* MemorySystem(max_size=2, importance_threshold=0.5) consolidating
\* whenever the short-term buffer is full
InitMerge ==
    /\ max_size = 2
    /\ importance_threshold = <<1, 2>>
    /\ consolidation_interval = ShortCapacity
    /\ short_term = <<>>
    /\ long_term = <<>>
    /\ metrics = NoMetrics
    /\ now = 0
    /\ last_add = NoAdd
    /\ n_calls = 0
    /\ n_stored = 0
    /\ n_below = 0
    /\ n_fired = 0
    /\ recall = RecallIdle
    /\ PfIdle
    /\ SigIdle
    /\ BtIdle

\* calls of add that read the clock at one instant
NextMerge ==
    \E p \in MergePayloads :
        /\ n_calls < MaxMergeAdds
        /\ Add(p.type, p.data, now)

SpecMerge == InitMerge /\ [][NextMerge]_vars

InitSignal ==
    /\ SigIdle
    /\ PfIdle
    /\ MemIdle
    /\ BtIdle

NextSignal ==
    \E technical \in TechnicalArgs, risk \in RiskArgs,
       liquidity \in LiquidityArgs :
        GenerateSignals(technical, risk, liquidity)

SpecSignal == InitSignal /\ [][NextSignal]_vars

NextAnalysis ==
    \E metrics_ok \in BOOLEAN, history_ok \in BOOLEAN, depth \in DepthBodies,
       tech \in TechnicalBodies, rsk \in RiskBodies,
       price_change_ok \in BOOLEAN :
        AnalyzeToken(metrics_ok, history_ok, depth, tech, rsk, price_change_ok)

SpecAnalysis == InitSignal /\ [][NextAnalysis]_vars

NextRsi ==
    \E prices \in SeqsUpTo(PriceLevels, MaxPrices), period \in RsiPeriods :
        CalculateRsi(prices, period)

SpecRsi == InitSignal /\ [][NextRsi]_vars

\* CryptoBacktesterSimplified.__init__ with a capital that is not negative
InitBacktest ==
    /\ \E initial_capital \in {R(0), R(100)} :
           portfolio = StartPortfolio(initial_capital)
    /\ trade_execution = NoExecution
    /\ n_executed = 0
    /\ PfIdle
    /\ MemIdle
    /\ SigIdle

\* calls of execute_trade for a traded pair or another token, at prices
\* that are not negative
NextBacktest ==
    \E token \in TradingPairs \cup {"BONK"},
       action \in {"buy", "sell", "hold"},
       quantity \in {R(-1), R(0), <<1, 2>>, R(3)},
       current_price \in {R(0), R(10), R(40)} :
        /\ n_executed < MaxExecuted
        /\ ExecuteTrade(token, action, quantity, current_price)

SpecBacktest == InitBacktest /\ [][NextBacktest]_vars

-----------------------------------------------------------------------------
(* Properties of the portfolio (SpecPortfolio) *)

\* the sized amounts calculate_trade_size returns in the current state
SizesNow ==
    { [size |-> calculate_trade_size(SignalOf(inp).confidence,
                                     [liquidity |-> liq]),
       liq  |-> liq] : inp \in EngineInputs, liq \in Liquidities }

\* C1: after every update_portfolio, total_value equals cash plus the sum
\* over held tokens of positions[t] * price(t); a token is left out only
\* when its price lookup fails.
C1_TotalValueRevalued ==
    total_value =
        RAdd(cash,
             RSum([t \in DOMAIN positions |->
                     IF price_feed[t].ok
                     THEN RMul(positions[t], get_current_price(t))
                     ELSE R(0)],
                  DOMAIN positions))

\* C2: starting from cash >= 0, buys whose amount came from
\* calculate_trade_size and were applied at a positive fill price never
\* make cash negative.
C2_CashNeverNegative == RLe(R(0), cash)

\* C3: for every confidence the signal engine outputs and every portfolio
\* state, the sized amount is <= 0.2 * total_value, <= 0.1 * liquidity when
\* liquidity > 0, and <= cash; with cash = 0 the size is 0.
C3_SizeWithinCaps ==
    \A r \in SizesNow :
        /\ RLe(r.size, RMul(<<1, 5>>, total_value))
        /\ (RLt(R(0), r.liq) => RLe(r.size, RMul(<<1, 10>>, r.liq)))
        /\ RLe(r.size, cash)
        /\ (cash = R(0) => r.size = R(0))

\* C4: calculate_trade_size returns a size >= 0 in every portfolio state
\* reachable by sizing and applying trades from a non-negative capital.
C4_SizeNonNegative == \A r \in SizesNow : RLe(R(0), r.size)

-----------------------------------------------------------------------------
(* Properties of the memory store (SpecMemory) *)

InBuffer(e, buf) == \E i \in 1..Len(buf) : buf[i] = e

\* a step that is a call of add
AddStep == n_calls' = n_calls + 1

\* C5: the short-term buffer never holds more than its capacity and the
\* long-term buffer never more than max_size entries; an append to a full
\* buffer removes exactly the oldest entry and keeps the others in order.
C5_BoundedFifo ==
    /\ [](Len(short_term) <= ShortCapacity /\ Len(long_term) <= max_size)
    /\ [][ (AddStep /\ last_add'.ok) =>
             /\ (Len(short_term) = ShortCapacity /\ ~last_add'.consolidated
                    => short_term' = Append(Tail(short_term), last_add'.entry))
             /\ (Len(short_term) = ShortCapacity
                    => last_add'.appended
                         = Append(Tail(short_term), last_add'.entry))
             /\ (Len(long_term) = max_size
                 /\ RLe(importance_threshold, last_add'.entry.importance)
                    => long_term' = Append(Tail(long_term), last_add'.entry))
         ]_vars

C5_Witness ==
    /\ last_add.ok
    /\ ~last_add.consolidated
    /\ n_stored > ShortCapacity
    /\ consolidation_interval > ShortCapacity
    /\ Len(short_term) = ShortCapacity
    /\ Len(long_term) = max_size
    /\ short_term[1] # short_term[2]
    /\ RLe(importance_threshold, last_add.entry.importance)

\* C6 as stated: after more than short_capacity adds on a fresh store, none
\* of them reaching the threshold, the short-term buffer holds exactly
\* short_capacity entries and the long-term buffer is empty.
C6_FullAfterOverflow ==
    (n_calls > ShortCapacity /\ n_below = n_calls)
        => (Len(short_term) = ShortCapacity /\ long_term = <<>>)

\* C6 amended: the same, for a store whose consolidation_interval exceeds
\* the short-term capacity (no add ever triggers consolidation).
C6_FullAfterOverflowNoConsolidation ==
    (n_calls > ShortCapacity /\ n_below = n_calls
     /\ consolidation_interval > ShortCapacity)
        => (Len(short_term) = ShortCapacity /\ long_term = <<>>)

C6_Witness ==
    /\ n_calls > ShortCapacity
    /\ n_below = n_calls
    /\ consolidation_interval > ShortCapacity
    /\ Len(short_term) = ShortCapacity

\* C7: an entry that is the only member of its (type, token) group is still
\* in the short-term buffer after consolidation, with the same data and the
\* same importance.
C7_SingletonSurvives ==
    (last_add.ok /\ last_add.consolidated) =>
        \A i \in 1..Len(last_add.appended) :
            LET m == last_add.appended[i]
            IN  Len(GroupOf(last_add.appended, GroupKey(m))) = 1
                => \E j \in 1..Len(short_term) :
                      /\ short_term[j].type = m.type
                      /\ short_term[j].data = m.data
                      /\ short_term[j].importance = m.importance

\* C8 as stated: after add of an entry whose importance is 1.0, in any
\* reachable store state, the entry is in both buffers.
C8_TopEntryInBoth ==
    (last_add.ok /\ last_add.entry.importance = R(1))
        => (InBuffer(last_add.entry, short_term)
            /\ InBuffer(last_add.entry, long_term))

\* C8 amended: after add of an entry whose importance is 1.0, when that add
\* did not trigger consolidation, the entry is in both buffers.
C8_TopEntryInBothUnlessConsolidated ==
    (last_add.ok /\ last_add.entry.importance = R(1)
     /\ ~last_add.consolidated)
        => (InBuffer(last_add.entry, short_term)
            /\ InBuffer(last_add.entry, long_term))

C8_Witness ==
    /\ last_add.ok
    /\ last_add.entry.importance = R(1)
    /\ ~last_add.consolidated
    /\ n_stored > max_size
    /\ n_stored > ShortCapacity
    /\ InBuffer(last_add.entry, short_term)
    /\ InBuffer(last_add.entry, long_term)

\* C9: every stored entry has importance within [0, 1].
C9_ImportanceInUnitRange ==
    /\ \A i \in 1..Len(short_term) :
          RLe(R(0), short_term[i].importance)
          /\ RLe(short_term[i].importance, R(1))
    /\ \A i \in 1..Len(long_term) :
          RLe(R(0), long_term[i].importance)
          /\ RLe(long_term[i].importance, R(1))

\* C10: add appends the new entry to the long-term buffer exactly when its
\* importance is >= importance_threshold, so every long-term entry has
\* importance >= importance_threshold.
C10_PromotedIffImportant ==
    /\ [](\A i \in 1..Len(long_term) :
             RLe(importance_threshold, long_term[i].importance))
    /\ [][ AddStep =>
             IF last_add'.ok
                /\ RLe(importance_threshold, last_add'.entry.importance)
             THEN /\ Len(long_term') = IF Len(long_term) < max_size
                                       THEN Len(long_term) + 1 ELSE max_size
                  /\ long_term'[Len(long_term')] = last_add'.entry
             ELSE long_term' = long_term
         ]_vars

C10_Witness ==
    /\ last_add.ok
    /\ last_add.entry.importance = importance_threshold
    /\ InBuffer(last_add.entry, long_term)
    /\ n_below >= 1
    /\ n_stored > n_below + 1

-----------------------------------------------------------------------------
(* Properties of the store under queries (SpecStore, SpecMemory) *)

\* the number of recorded trades whose profit is a number above zero
Wins(ts) ==
    Cardinality({i \in 1..Len(ts) :
                    /\ "profit" \in DOMAIN ts[i]
                    /\ ts[i]["profit"].k = "num"
                    /\ RLt(R(0), ts[i]["profit"].v)})

\* C11: after any sequence of add calls, win_rate is the number of recorded
\* trades with profit > 0 divided by total_trades, and 0 when no trade was
\* recorded.
C11_WinRateIsBatchMean ==
    /\ metrics.total_trades = Len(metrics.trades)
    /\ metrics.win_rate = IF metrics.total_trades = 0 THEN R(0)
                          ELSE Rat(Wins(metrics.trades), metrics.total_trades)

\* C12 as stated: whatever the consolidation_interval, once as many adds
\* have stored their entry as the interval asks for, one of them has
\* triggered consolidation.
C12_ConsolidationFires ==
    n_stored >= consolidation_interval => n_fired >= 1

\* C12 amended: the same for an interval within the short-term capacity;
\* and the add whose append brings the buffer to the interval is the one
\* that consolidates.
C12_ConsolidationFiresWithinCapacity ==
    /\ (consolidation_interval <= ShortCapacity
        /\ n_stored >= consolidation_interval) => n_fired >= 1
    /\ (last_add.ok /\ Len(last_add.appended) >= consolidation_interval)
           => last_add.consolidated

C12_Witness ==
    /\ consolidation_interval = ShortCapacity
    /\ n_stored = consolidation_interval
    /\ n_fired = 1
    /\ last_add.ok
    /\ last_add.consolidated
    /\ Len(last_add.appended) = consolidation_interval

\* C13: a get_relevant_memories call returns at most `limit` entries, in
\* non-increasing order of relevance.
C13_AtMostLimitSorted ==
    (recall.called /\ ~recall.raised) =>
        /\ Len(recall.out) <= recall.limit
        /\ \A i \in 1..(Len(recall.scores) - 1) :
               RLe(recall.scores[i + 1], recall.scores[i])

\* C14: no two entries returned by one get_relevant_memories call have the
\* same timestamp and type; an entry held in both buffers comes back at
\* most once.
C14_NoDuplicateKeys ==
    (recall.called /\ ~recall.raised) =>
        /\ \A i, j \in 1..Len(recall.out) :
               (recall.out[i].timestamp = recall.out[j].timestamp
                /\ recall.out[i].type = recall.out[j].type) => i = j
        /\ \A i, j \in 1..Len(recall.out) :
               recall.out[i] = recall.out[j] => i = j

C14_Witness ==
    /\ recall.called
    /\ ~recall.raised
    /\ recall.limit > Len(recall.out)
    /\ Len(recall.out) >= 2
    /\ \E i \in 1..Len(recall.out) :
           InBuffer(recall.out[i], short_term) /\ InBuffer(recall.out[i], long_term)

\* C15: whatever was added before, malformed payloads included, a
\* get_relevant_memories call returns a result and does not raise.
C15_QueryNeverRaises ==
    recall.called => ~recall.raised

-----------------------------------------------------------------------------
(* Properties of the signal engine (SpecSignal) *)

\* C16: the action is BUY exactly when signal_strength > 0.3, SELL exactly
\* when signal_strength < -0.3 and HOLD otherwise, so a strength of exactly
\* 0.3 or -0.3 is HOLD.
C16_ActionByThreshold ==
    sig_in.called =>
        /\ signal.action = "BUY"  <=> RLt(<<3, 10>>, signal.signal_strength)
        /\ signal.action = "SELL" <=> RLt(signal.signal_strength, <<-3, 10>>)
        /\ signal.action = "HOLD" <=> /\ RLe(<<-3, 10>>, signal.signal_strength)
                                      /\ RLe(signal.signal_strength, <<3, 10>>)

C16_Witness ==
    /\ sig_in.called
    /\ signal.signal_strength = <<3, 10>>
    /\ signal.action = "HOLD"
    /\ signal.liquidity_score = <<1, 5>>

\* the arguments are dicts of numbers with value_at_risk >= 0 and
\* depth_2_percent >= 0
NonNegativeInputs ==
    /\ ~ScoringRaises(sig_in.technical, sig_in.risk, sig_in.liquidity)
    /\ RLe(R(0), Get(Floats(sig_in.risk), "value_at_risk", R(0)))
    /\ RLe(R(0), Get(Floats(sig_in.liquidity), "depth_2_percent", R(0)))

\* C17: for numeric indicators with non-negative value_at_risk and depth the
\* returned confidence is within [0, 1] and signal_strength within [-1, 1].
C17_SignalInRange ==
    (sig_in.called /\ NonNegativeInputs) =>
        /\ RLe(R(0), signal.confidence)
        /\ RLe(signal.confidence, R(1))
        /\ RLe(R(-1), signal.signal_strength)
        /\ RLe(signal.signal_strength, R(1))

\* C18: risk_score is within [0, 0.3] for every value_at_risk, negative
\* values included.
C18_RiskScoreInRange ==
    sig_in.called =>
        /\ RLe(R(0), signal.risk_score)
        /\ RLe(signal.risk_score, <<3, 10>>)

\* C19: generate_trading_signals returns for every argument, and when the
\* scoring fails (an argument that is no dict, a value that is no number)
\* it returns HOLD with confidence, signal_strength, risk_score and
\* liquidity_score all 0.
C19_FallbackOnFailure ==
    sig_in.called =>
        /\ signal.action \in {"BUY", "SELL", "HOLD"}
        /\ ScoringRaises(sig_in.technical, sig_in.risk, sig_in.liquidity) =>
               /\ signal.action = "HOLD"
               /\ signal.confidence = R(0)
               /\ signal.signal_strength = R(0)
               /\ signal.risk_score = R(0)
               /\ signal.liquidity_score = R(0)

C19_Witness ==
    /\ sig_in.called
    /\ IsMapping(sig_in.technical)
    /\ "rsi" \in DOMAIN sig_in.technical
    /\ sig_in.technical["rsi"].k = "str"
    /\ ~IsMapping(sig_in.liquidity)
    /\ signal.action = "HOLD"
    /\ signal.confidence = R(0)

\* the flat-price scenario: RSI between 30 and 70, MACD exactly 0,
\* value_at_risk 0 and depth 0
FlatScenario ==
    /\ sig_in.called
    /\ ~ScoringRaises(sig_in.technical, sig_in.risk, sig_in.liquidity)
    /\ RLe(R(30), Get(Floats(sig_in.technical), "rsi", R(50)))
    /\ RLe(Get(Floats(sig_in.technical), "rsi", R(50)), R(70))
    /\ Get(Floats(sig_in.technical), "macd", R(0)) = R(0)
    /\ Get(Floats(sig_in.risk), "value_at_risk", R(0)) = R(0)
    /\ Get(Floats(sig_in.liquidity), "depth_2_percent", R(0)) = R(0)

\* C20 as stated: in the flat-price scenario signal_strength is 0.3 and the
\* action is HOLD.
C20_FlatScenarioAtBoundary ==
    FlatScenario => (signal.signal_strength = <<3, 10>> /\ signal.action = "HOLD")

\* C20 amended: in the flat-price scenario the risk term contributes 0.3
\* and the MACD term -0.2, so signal_strength is 0.1 and the action HOLD.
C20_FlatScenarioHolds ==
    FlatScenario =>
        /\ signal.risk_score = <<3, 10>>
        /\ signal.liquidity_score = R(0)
        /\ signal.signal_strength = <<1, 10>>
        /\ signal.action = "HOLD"

C20_Witness ==
    /\ FlatScenario
    /\ Get(sig_in.technical, "rsi", Absent) = Num(R(50))
    /\ signal.signal_strength = <<1, 10>>

-----------------------------------------------------------------------------
(* Properties of analyze_token (SpecAnalysis) and of the RSI (SpecRsi) *)

\* C21: when calculate_technical_indicators and calculate_risk_metrics both
\* yield their failure result, the signal made from them is HOLD with
\* confidence 0, whatever the liquidity.
C21_DegradedSignalOnFailure ==
    (analysis.called /\ ~analysis.raised
     /\ analysis.technical_failed /\ analysis.risk_failed) =>
        /\ analysis.signals.action = "HOLD"
        /\ analysis.signals.confidence = R(0)

\* C22: analyze_token never raises to its caller, whatever the metrics,
\* history and liquidity providers do.
C22_AnalyzeNeverRaises ==
    analysis.called => ~analysis.raised

\* a result is a number within [0, 100]
InRsiRange(x) == x.k = "num" /\ RLe(R(0), x.v) /\ RLe(x.v, R(100))

\* C23: the RSI of every price series is within [0, 100], and it is exactly
\* 50.0 when the series has fewer than period + 1 points.
C23_RsiInRangeAndNeutral ==
    rsi_call.called =>
        /\ InRsiRange(rsi_call.rsi)
        /\ InRsiRange(rsi_call.simple_rsi)
        /\ Len(rsi_call.prices) < rsi_call.period + 1 =>
               /\ rsi_call.rsi = Num(R(50))
               /\ rsi_call.simple_rsi = Num(R(50))

-----------------------------------------------------------------------------
(* Properties of sizing and execution (SpecPortfolio, SpecExecute) *)

\* a step that sizes a trade
SizeStep == Len(trades') = Len(trades) + 1

\* min(0.2 * total_value * confidence, 0.1 * liquidity, cash), the
\* liquidity term left out when liquidity is 0
MinOfCaps(confidence, liquidity) ==
    LET base == RMul(RMul(<<1, 5>>, total_value), confidence)
    IN  IF RLt(R(0), liquidity)
        THEN RMin(RMin(base, RMul(<<1, 10>>, liquidity)), cash)
        ELSE RMin(base, cash)

\* C24: the size of a trade is min(0.2 * total_value * confidence,
\* 0.1 * liquidity, cash) when liquidity > 0 and
\* min(0.2 * total_value * confidence, cash) when liquidity is 0: for every
\* trade that gets sized, and for every confidence and liquidity in every
\* portfolio state.
C24_SizeIsMinOfCaps ==
    /\ [](\A inp \in EngineInputs, liq \in Liquidities \cup ExecLiquidities :
            calculate_trade_size(SignalOf(inp).confidence, [liquidity |-> liq])
                = MinOfCaps(SignalOf(inp).confidence, liq))
    /\ [][ SizeStep =>
             LET t == trades'[Len(trades')]
             IN  t.amount = MinOfCaps(t.confidence, t.liquidity)
         ]_vars

\* a trade sized while cash and total_value were 100, its confidence 1 and
\* the liquidity 50: the liquidity limit decides, 5
C24_Witness ==
    /\ n_applied = 0
    /\ cash = R(100)
    /\ total_value = R(100)
    /\ \E i \in 1..Len(trades) :
           /\ trades[i].liquidity = R(50)
           /\ trades[i].confidence = R(1)
           /\ trades[i].amount = R(5)

\* the execution of log entry e failed or raised
ExecFailed(e) == e.outcome.kind = "raises" \/ ~e.outcome.success

\* C25: an applied buy takes quantity * price from cash and adds quantity to
\* the position of its token, an applied sell does the reverse and may take
\* the position below 0; the positions of all other tokens stay as they are.
C25_ApplyFrame ==
    \A i \in 1..Len(exec_report.log) :
        LET e     == exec_report.log[i]
            token == e.trade.token
            cost  == RMul(e.trade.amount, e.outcome.executed_price)
            held  == Get(e.before.positions, token, R(0))
        IN  e.applied =>
              /\ e.trade.action = "buy" =>
                   /\ e.after.cash = RSub(e.before.cash, cost)
                   /\ e.after.positions[token] = RAdd(held, e.trade.amount)
              /\ e.trade.action = "sell" =>
                   /\ e.after.cash = RAdd(e.before.cash, cost)
                   /\ e.after.positions[token] = RSub(held, e.trade.amount)
              /\ DOMAIN e.after.positions = DOMAIN e.before.positions \cup {token}
              /\ \A t \in DOMAIN e.before.positions \ {token} :
                     e.after.positions[t] = e.before.positions[t]

\* an applied sell takes a position below 0 while another token is held
C25_Witness ==
    \E i \in 1..Len(exec_report.log) :
        LET e == exec_report.log[i]
        IN  /\ e.applied
            /\ e.trade.action = "sell"
            /\ RLt(e.after.positions[e.trade.token], R(0))
            /\ \E t \in DOMAIN e.before.positions :
                   /\ t # e.trade.token
                   /\ RLt(R(0), e.before.positions[t])
                   /\ e.after.positions[t] = e.before.positions[t]

\* the last trade of the list for the token of entry i is entry i itself
LastOfToken(i) ==
    \A j \in (i + 1)..Len(exec_report.log) :
        exec_report.log[j].trade.token # exec_report.log[i].trade.token

\* C29 as stated: a trade is applied only when its execution reported
\* success; a trade whose execution fails or raises leaves cash, positions
\* and total_value unchanged and is reported with success False; every trade
\* of the list is processed.
C29_FailedTradesIsolated ==
    exec_report.called =>
        /\ Len(exec_report.log) = exec_report.n
        /\ \A i \in 1..Len(exec_report.log) :
               LET e == exec_report.log[i]
               IN  /\ e.applied => (e.outcome.kind = "result" /\ e.outcome.success)
                   /\ ExecFailed(e) =>
                        /\ e.after = e.before
                        /\ ~exec_report.results[e.trade.token].success

\* C29 amended: the same, the report being looked up for the last trade
\* of each token only: the results are keyed by token, so the report of a
\* trade is replaced by that of a later trade of the same token.
C29_FailedTradesIsolatedPerToken ==
    exec_report.called =>
        /\ Len(exec_report.log) = exec_report.n
        /\ \A i \in 1..Len(exec_report.log) :
               LET e == exec_report.log[i]
               IN  /\ e.applied => (e.outcome.kind = "result" /\ e.outcome.success)
                   /\ ExecFailed(e) => e.after = e.before
                   /\ ~e.applied => e.after = e.before
                   /\ LastOfToken(i) =>
                        exec_report.results[e.trade.token].success = e.applied

\* a raising trade followed by an applied trade of another token
C29_Witness ==
    /\ exec_report.called
    /\ Len(exec_report.log) = 2
    /\ exec_report.log[1].outcome.kind = "raises"
    /\ exec_report.log[2].applied
    /\ exec_report.log[1].trade.token # exec_report.log[2].trade.token
    /\ ~exec_report.results[exec_report.log[1].trade.token].success
    /\ exec_report.log[2].after.cash # exec_report.log[2].before.cash

-----------------------------------------------------------------------------
(* Properties of consolidation (SpecMerge) *)

\* same type and same token, a missing token counting as ''
SameTypeAndToken(a, b) ==
    /\ a.type = b.type
    /\ Get(a.data, "token", Str(<<>>)) = Get(b.data, "token", Str(<<>>))

\* C26: consolidation merges two short-term entries into one consolidated
\* entry exactly when they have the same type and the same token.  When no
\* two entries of the buffer agree in both, nothing is merged and the
\* buffer is left empty; when some do and the merge goes through, an
\* entry of their type and token is left behind.
C26_MergedIffSameTypeAndToken ==
    (last_add.ok /\ last_add.consolidated) =>
        LET buf == last_add.appended
            res == ConsolidateGroups(buf, GroupKeys(buf, <<>>), now)
        IN  /\ (\A i, j \in 1..Len(buf) :
                    SameTypeAndToken(buf[i], buf[j]) => i = j)
                => short_term = <<>>
            /\ ~res.raised =>
                 \A i, j \in 1..Len(buf) :
                     (i # j /\ SameTypeAndToken(buf[i], buf[j])) =>
                         \E k \in 1..Len(short_term) :
                             SameTypeAndToken(short_term[k], buf[i])

\* the value a consolidated entry may hold under a key, given the entries
\* of its group in buffer order: the mean of the numeric values under the
\* key, or the last non-numeric value seen under it
MergedAsStated(group, key, value) ==
    LET having == SelectSeq(group, LAMBDA m : key \in DOMAIN m.data)
        values == [i \in 1..Len(having) |-> having[i].data[key]]
        nums   == SelectSeq(values, IsNumeric)
        others == SelectSeq(values, LAMBDA x : ~IsNumeric(x))
    IN  \/ /\ nums # <<>>
           /\ value = Num(RDiv(RSum([i \in 1..Len(nums) |-> nums[i].v],
                                    1..Len(nums)),
                               R(Len(nums))))
        \/ /\ others # <<>>
           /\ value = others[Len(others)]

\* C27: a group of more than one entry leaves one consolidated entry whose
\* importance is the maximum over the group and whose data holds, under
\* each key, the mean of the numeric values or the last non-numeric value,
\* whatever the mix and order of the values under the key.
C27_MergedDataAsStated ==
    (last_add.ok /\ last_add.consolidated) =>
        LET buf    == last_add.appended
            keys   == GroupKeys(buf, <<>>)
            groups == {g \in {GroupOf(buf, keys[i]) : i \in 1..Len(keys)} :
                         Len(g) > 1}
        IN  /\ Len(short_term) = Cardinality(groups)
            /\ \A g \in groups :
                   \E k \in 1..Len(short_term) :
                       LET e == short_term[k]
                       IN  /\ e.type = g[1].type
                           /\ e.importance = MaxImportance(g)
                           /\ \A key \in DOMAIN e.data :
                                  MergedAsStated(g, key, e.data[key])

\* C28: consolidation changes the short-term buffer only: the long-term
\* buffer and the metrics are after it what they were when it began.
C28_ConsolidationFrame ==
    (last_add.ok /\ last_add.consolidated) =>
        /\ long_term = last_add.long_before
        /\ metrics = last_add.metrics_before

-----------------------------------------------------------------------------
(* Properties of the backtester (SpecBacktest) *)

\* the last execute_trade was given a trade the backtester rejects: no
\* positive quantity, a buy that costs more than the cash, or a sell of
\* more than the held balance of a traded pair
RejectedTrade ==
    LET e == trade_execution
    IN  /\ e.called
        /\ \/ RLe(e.quantity, R(0))
           \/ /\ e.action = "buy"
              /\ RLt(e.before.cash, RMul(e.quantity, e.price))
           \/ /\ e.action = "sell"
              /\ e.token \in TradingPairs
              /\ RLt(e.before.tokens[e.token], e.quantity)

\* C30: with prices and initial capital that are not negative, cash and
\* every token balance stay at or above zero, and a rejected trade returns
\* None and leaves the portfolio as it was.
C30_BacktestSolvent ==
    /\ RLe(R(0), portfolio.cash)
    /\ \A pair \in DOMAIN portfolio.tokens :
           RLe(R(0), portfolio.tokens[pair])
    /\ RejectedTrade =>
           /\ trade_execution.returned = "none"
           /\ portfolio = trade_execution.before

\* a buy was rejected for its cost while a balance bought earlier is held
C30_Witness ==
    /\ RejectedTrade
    /\ trade_execution.action = "buy"
    /\ RLt(R(0), trade_execution.quantity)
    /\ \E pair \in TradingPairs : RLt(R(0), portfolio.tokens[pair])
    /\ RLt(portfolio.cash, R(100))

====
